---- MODULE Spec2Model ----
(***************************************************************************)
(* Model of deabook's group-VC-added convex quantile / expectile           *)
(* regression models (deabook/utils/CQERZG1.py, CQERZG2.py) and of the     *)
(* CNLSG1 and CNLSDDFG2 models: which pyomo components a constructor       *)
(* attaches to self.__model__ for a given (cet, fun, rts, cutactive,       *)
(* active, b), and the solve / accessor lifecycle.                         *)
(*                                                                         *)
(* Constraint bodies are kept as symbolic expressions over the model's     *)
(* variables and the data:                                                 *)
(*   a side  [alpha |-> <<a>> or <<>>, beta |-> b, x |-> i]  stands for    *)
(*       (alpha[a] +) sum(beta[b, j] * x[i][j] for j in J)                 *)
(* so the values of y, x and z never decide which constraint is built.     *)
(* Matrix cells are Python numbers, with True = 1 and False = 0.           *)
(***************************************************************************)
EXTENDS Integers, FiniteSets, Sequences, TLC

\* number of observations, len(y)
NumObs == 3
\* most cells of cutactive and active together that are non-zero
MaxFlagged == 2
\* most calls of the external solver in one run
MaxSolverCalls == 2

VARIABLES
    data,                \* the caller's data set: tau and the flags' value
    request,             \* the constructor call: class, cet, fun, rts
    phase,               \* "new", "built" or "failed" (constructor raised)
    error,               \* exception the constructor raised, "none" otherwise
    cet, fun, rts, tau,  \* self.cet, self.fun, self.rts, self.tau
    b,                   \* self.b : "none" (no attribute), "None" or "supplied"
    cutactive, active,   \* self.cutactive, self.active
                         \*   ("none" / 0 / no matrix while there is no instance)
    model,               \* self.__model__ : the pyomo components
    optimization_status, \* self.optimization_status
    problem_status,      \* self.problem_status
    solver_calls,        \* how often optimize_model has been invoked
    solved,              \* some optimize_model call has returned normally
    last_call            \* the last method call and how it ended

vars == <<data, request, phase, error, cet, fun, rts, tau, b, cutactive, active, model,
          optimization_status, problem_status, solver_calls, solved, last_call>>

-----------------------------------------------------------------------------
(* constants of deabook/constant.py, as imported *)
CET_ADDI == "CET_ADDI"
CET_MULT == "CET_MULT"
FUN_PROD == "FUN_PROD"
FUN_COST == "FUN_COST"
RTS_VRS1 == "RTS_VRS1"
RTS_CRS == "RTS_CRS"
UNSUPPORTED == "unsupported"

CetValues == {CET_ADDI, CET_MULT, UNSUPPORTED}
FunValues == {FUN_PROD, FUN_COST, UNSUPPORTED}
RtsValues == {RTS_VRS1, RTS_CRS, UNSUPPORTED}
\* the data sets: tau in tenths (0.3, 0.5), and what a flagged cell of
\* cutactive / active holds: True (= 1) or another non-zero number
DataValues == {[tau |-> 3, flag |-> 1], [tau |-> 5, flag |-> 2]}

G1Classes == {"CQRZG1", "CERZG1"}
G2Classes == {"CQRZG2", "CERZG2"}
Classes == G1Classes \cup G2Classes

\* model.I = Set(initialize=range(len(self.y)))
I == 0 .. (NumObs - 1)
Pairs == I \X I

\* the successor without the wrap from the last observation to the first
nextw_nowrap(i) == i + 1

\* pyomo's Set.nextw: the next member, wrapping from the last to the first
nextw(i) == (i + 1) % NumObs

\* Python truth value of a number: `if self.cutactive[i][h]:`
Truthy(v) == v # 0

\* an I x I matrix whose cells in S hold v and whose other cells hold 0
Matrix(S, v) == [p \in Pairs |-> IF p \in S THEN v ELSE 0]
\* no `active` attribute (phase-1 classes)
NoMatrix == [p \in {} |-> 0]

ValueErrorUndefined == "ValueError: Undefined model parameters."
NameErrorOperator == "NameError: __operator"

-----------------------------------------------------------------------------
(* symbolic expressions *)
NoSide == [alpha |-> <<>>, beta |-> -1, x |-> -1]
Skip == [lhs |-> NoSide, op |-> "skip", rhs |-> NoSide]

\* alpha[a] + sum(beta[h, j] * x[i][j] for j in J)
WithAlpha(a, h, i) == [alpha |-> <<a>>, beta |-> h, x |-> i]
\* sum(beta[h, j] * x[i][j] for j in J)
NoAlpha(h, i) == [alpha |-> <<>>, beta |-> h, x |-> i]

\* what a rule factory hands back: the closure as a function of its index,
\* or the exception it raised
Returned(f) == [err |-> "none", rule |-> f]
Raised(e, idx) == [err |-> e, rule |-> [p \in idx |-> Skip]]

-----------------------------------------------------------------------------
(* CQRZG1.__objective_rule : weights in tenths, (1 - tau) on epsilon_plus *)
CQRZG1__objective_rule(t) ==
    [epsilon_plus |-> 10 - t, epsilon_minus |-> t, power |-> 1]

\* the squared objective with the two weights exchanged
CERZG1__squared_objective_rule_swapped(t) ==
    [epsilon_plus |-> t, epsilon_minus |-> 10 - t, power |-> 2]

(* CERZG1.__squared_objective_rule *)
CERZG1__squared_objective_rule(t) ==
    [epsilon_plus |-> 10 - t, epsilon_minus |-> t, power |-> 2]

(* CERZG2.__squared_objective_rule *)
CERZG2__squared_objective_rule(t) ==
    [epsilon_plus |-> 10 - t, epsilon_minus |-> t, power |-> 2]

\* y-side and right side of a regression equation
\*   lamda is the sign of sum(lamda[k] * z[i][k] for k in K)
Regression(yfn, i, logfrontier, side, lamdaSign) ==
    [lhs |-> [fn |-> yfn, y |-> i],
     op |-> "eq",
     rhs |-> [log_frontier |-> logfrontier, side |-> side, lamda |-> lamdaSign,
              z |-> i, epsilon_minus |-> -1, epsilon_plus |-> 1]]

(* CQRZG1.__regression_rule *)
CQRZG1__regression_rule(c, r) ==
    IF c = CET_ADDI /\ r = RTS_VRS1
    THEN Returned([i \in I |-> Regression("id", i, <<>>, WithAlpha(i, i, i), -1)])
    ELSE IF c = CET_ADDI /\ r = RTS_CRS
    THEN Returned([i \in I |-> Regression("id", i, <<>>, NoAlpha(i, i), 1)])
    ELSE IF c = CET_MULT
    THEN Returned([i \in I |-> Regression("log", i, <<i>>, NoSide, -1)])
    ELSE Raised(ValueErrorUndefined, I)

\* frontier[i] == side - 1
LogRule(i, side) ==
    [lhs |-> [frontier |-> i], op |-> "eq", rhs |-> [side |-> side, plus |-> -1]]

\* __log_rule that leaves alpha out under variable returns to scale too
CQRZG1__log_rule_no_alpha(c, r) ==
    IF c = CET_MULT /\ r \in {RTS_VRS1, RTS_CRS}
    THEN Returned([i \in I |-> LogRule(i, NoAlpha(i, i))])
    ELSE Raised(ValueErrorUndefined, I)

(* CQRZG1.__log_rule *)
CQRZG1__log_rule(c, r) ==
    IF c = CET_MULT /\ r = RTS_VRS1
    THEN Returned([i \in I |-> LogRule(i, WithAlpha(i, i, i))])
    ELSE IF c = CET_MULT /\ r = RTS_CRS
    THEN Returned([i \in I |-> LogRule(i, NoAlpha(i, i))])
    ELSE Raised(ValueErrorUndefined, I)

\* `__operator`: bound to __le__ or __ge__, or left unbound when fun is neither
afriat_operator(f) ==
    IF f = FUN_PROD THEN "le" ELSE IF f = FUN_COST THEN "ge" ELSE "unbound"

sweet_operator(f) ==
    IF f = FUN_PROD THEN "le" ELSE IF f = FUN_COST THEN "ge" ELSE "unbound"

\* sweet2_operator that never looks at fun
sweet2_operator_le(f) == "le"

sweet2_operator(f) ==
    IF f = FUN_PROD THEN "le" ELSE IF f = FUN_COST THEN "ge" ELSE "unbound"

Rel(op, lhs, rhs) == [lhs |-> lhs, op |-> op, rhs |-> rhs]

(* CQRZG1.__afriat_rule *)
CQRZG1__afriat_rule(c, f, r) ==
    LET op == afriat_operator(f) IN
    IF c = CET_ADDI /\ r = RTS_VRS1
    THEN Returned([i \in I |->
            Rel(op, WithAlpha(i, i, i), WithAlpha(nextw(i), nextw(i), i))])
    ELSE IF c = CET_ADDI /\ r = RTS_CRS
    THEN Returned([i \in I |-> Rel(op, NoAlpha(i, i), NoAlpha(nextw(i), i))])
    ELSE IF c = CET_MULT /\ r = RTS_VRS1
    THEN Returned([i \in I |->
            Rel(op, WithAlpha(i, i, i), WithAlpha(nextw(i), nextw(i), i))])
    ELSE IF c = CET_MULT /\ r = RTS_CRS
    THEN Returned([i \in I |-> Rel(op, NoAlpha(i, i), NoAlpha(nextw(i), i))])
    ELSE Raised(ValueErrorUndefined, I)

\* sweet_gate without the test of the flag
sweet_gate_unflagged(m, i, h, body) ==
    IF i = h THEN Skip ELSE body

\* the gate of sweet_rule(model, i, h): the flag first, then the self-pair
sweet_gate(m, i, h, body) ==
    IF Truthy(m[<<i, h>>])
    THEN IF i = h THEN Skip ELSE body
    ELSE Skip

(* CQRZG1.__sweet_rule *)
CQRZG1__sweet_rule(c, f, r, cut) ==
    LET op == sweet_operator(f) IN
    IF c = CET_ADDI /\ r = RTS_VRS1
    THEN Returned([p \in Pairs |-> sweet_gate(cut, p[1], p[2],
            Rel(op, WithAlpha(p[1], p[1], p[1]), WithAlpha(p[2], p[2], p[1])))])
    ELSE IF c = CET_ADDI /\ r = RTS_CRS
    THEN Returned([p \in Pairs |-> sweet_gate(cut, p[1], p[2],
            Rel(op, NoAlpha(p[1], p[1]), NoAlpha(p[2], p[1])))])
    ELSE IF c = CET_MULT /\ r = RTS_VRS1
    THEN Returned([p \in Pairs |-> sweet_gate(cut, p[1], p[2],
            Rel(op, WithAlpha(p[1], p[1], p[1]), WithAlpha(p[2], p[2], p[1])))])
    ELSE IF c = CET_MULT /\ r = RTS_CRS
    THEN Returned([p \in Pairs |-> sweet_gate(cut, p[1], p[2],
            Rel(op, NoAlpha(p[1], p[1]), NoAlpha(p[2], p[1])))])
    ELSE Raised(ValueErrorUndefined, Pairs)

\* sweet2_gate with the test of the flag inverted
sweet2_gate_inverted(m, i, h, body) ==
    IF Truthy(m[<<i, h>>])
    THEN Skip
    ELSE IF i = h THEN Skip ELSE body

\* sweet2_gate without the test of the self-pair
sweet2_gate_selfpair(m, i, h, body) ==
    IF Truthy(m[<<i, h>>]) THEN body ELSE Skip

\* the gate of sweet_rule2(model, i, h)
sweet2_gate(m, i, h, body) ==
    IF Truthy(m[<<i, h>>])
    THEN IF i = h THEN Skip ELSE body
    ELSE Skip

(* CQRZG2.__sweet_rule2 : the additive CRS branch keeps the alpha terms *)
CQRZG2__sweet_rule2(c, f, r, act) ==
    LET op == sweet2_operator(f) IN
    IF c = CET_ADDI /\ r = RTS_VRS1
    THEN Returned([p \in Pairs |-> sweet2_gate(act, p[1], p[2],
            Rel(op, WithAlpha(p[1], p[1], p[1]), WithAlpha(p[2], p[2], p[1])))])
    ELSE IF c = CET_ADDI /\ r = RTS_CRS
    THEN Returned([p \in Pairs |-> sweet2_gate(act, p[1], p[2],
            Rel(op, WithAlpha(p[1], p[1], p[1]), WithAlpha(p[2], p[2], p[1])))])
    ELSE IF c = CET_MULT /\ r = RTS_VRS1
    THEN Returned([p \in Pairs |-> sweet2_gate(act, p[1], p[2],
            Rel(op, WithAlpha(p[1], p[1], p[1]), WithAlpha(p[2], p[2], p[1])))])
    ELSE IF c = CET_MULT /\ r = RTS_CRS
    THEN Returned([p \in Pairs |-> sweet2_gate(act, p[1], p[2],
            Rel(op, NoAlpha(p[1], p[1]), NoAlpha(p[2], p[1])))])
    ELSE Raised(ValueErrorUndefined, Pairs)

-----------------------------------------------------------------------------
(* pyomo: attaching Constraint(index, rule=f) to a ConcreteModel calls f on  *)
(* every index; Constraint.Skip adds no member; a body that reads the        *)
(* unbound `__operator` raises NameError.                                    *)
Constraint(f) ==
    [err |-> IF \E d \in DOMAIN f : f[d].op = "unbound"
             THEN NameErrorOperator ELSE "none",
     members |-> {[index |-> d, body |-> f[d]] :
                    d \in {e \in DOMAIN f : f[e].op # "skip"}}]

\* Objective(rule=f, sense=minimize), active until deactivate() is called
Objective(expr) == {[active |-> TRUE, sense |-> "minimize", expr |-> expr]}
\* a deactivate() that leaves the objective active
deactivate_nothing(obj) == obj
\* objective.deactivate()
deactivate(obj) == {[o EXCEPT !.active = FALSE] : o \in obj}

\* Set(initialize=range(len(of))) attached under `name`
Set(name, of) == [name |-> name, range_len |-> of]
\* bounds of a Var: none given, or bounds=(0.0, None)
Free == [lower |-> <<>>, upper |-> <<>>]
NonNegative == [lower |-> <<0>>, upper |-> <<>>]
\* Var(index sets, bounds) attached under `name`
Var(name, index, bounds) == [name |-> name, index |-> index, bounds |-> bounds]

EmptyModel ==
    [sets |-> {}, variables |-> {},
     objective |-> {}, squared_objective |-> {}, regression_rule |-> {},
     log_rule |-> {}, translation_rule |-> {}, afriat_rule |-> {},
     sweet_rule |-> {}, sweet_rule2 |-> {}]

\* the constructor raised e: no instance is produced
Fail(e) == [error |-> e, model |-> EmptyModel]
Built(m) == [error |-> "none", model |-> m]

(* tools.trans_list / tools.to_2d_list, applied to the raw `active` input:   *)
(* the I x I boolean matrix of the raw cells                                 *)
trans_list(raw) == raw
to_2d_list(li) == [p \in DOMAIN li |-> IF Truthy(li[p]) THEN 1 ELSE 0]

\* variables of CQRZG1 with one lamda per observation and column of z
CQRZG1__variables_lamda_per_obs ==
    {Var("alpha", <<"I">>, Free),
     Var("beta", <<"I", "J">>, NonNegative),
     Var("lamda", <<"I", "K">>, Free),
     Var("epsilon_plus", <<"I">>, NonNegative),
     Var("epsilon_minus", <<"I">>, NonNegative),
     Var("frontier", <<"I">>, NonNegative)}

(* CQRZG1.__init__ : the sets and the variables *)
CQRZG1__sets == {Set("I", "y"), Set("J", "x[0]"), Set("K", "z[0]")}
CQRZG1__variables ==
    {Var("alpha", <<"I">>, Free),
     Var("beta", <<"I", "J">>, NonNegative),
     Var("lamda", <<"K">>, Free),
     Var("epsilon_plus", <<"I">>, NonNegative),
     Var("epsilon_minus", <<"I">>, NonNegative),
     Var("frontier", <<"I">>, NonNegative)}

(* CQRZG2.__init__ : the sets and the variables *)
CQRZG2__sets == {Set("I", "y"), Set("J", "x[0]"), Set("K", "z[0]")}
CQRZG2__variables ==
    {Var("alpha", <<"I">>, Free),
     Var("beta", <<"I", "J">>, NonNegative),
     Var("lamda", <<"K">>, Free),
     Var("epsilon_plus", <<"I">>, NonNegative),
     Var("epsilon_minus", <<"I">>, NonNegative),
     Var("frontier", <<"I">>, NonNegative)}

(* CQRZG1.__init__ : the components in the order the constructor adds them *)
CQRZG1__init__(c, f, r, t, cut) ==
    LET obj == Objective(CQRZG1__objective_rule(t))
        regF == CQRZG1__regression_rule(c, r)
    IN  IF regF.err # "none" THEN Fail(regF.err) ELSE
    LET reg == Constraint(regF.rule)
        logF == IF c = CET_MULT THEN CQRZG1__log_rule(c, r)
                ELSE Returned([i \in {} |-> Skip])
    IN  IF logF.err # "none" THEN Fail(logF.err) ELSE
    LET lg == Constraint(logF.rule)
        afrF == CQRZG1__afriat_rule(c, f, r)
    IN  IF afrF.err # "none" THEN Fail(afrF.err) ELSE
    LET afr == Constraint(afrF.rule)
    IN  IF afr.err # "none" THEN Fail(afr.err) ELSE
    LET swF == CQRZG1__sweet_rule(c, f, r, cut)
    IN  IF swF.err # "none" THEN Fail(swF.err) ELSE
    LET sw == Constraint(swF.rule)
    IN  IF sw.err # "none" THEN Fail(sw.err) ELSE
        Built([EmptyModel EXCEPT !.sets = CQRZG1__sets,
                                 !.variables = CQRZG1__variables,
                                 !.objective = obj,
                                 !.regression_rule = reg.members,
                                 !.log_rule = lg.members,
                                 !.afriat_rule = afr.members,
                                 !.sweet_rule = sw.members])

(* CERZG1.__init__ : super().__init__, then swap the objective *)
CERZG1__init__(c, f, r, t, cut) ==
    LET base == CQRZG1__init__(c, f, r, t, cut)
    IN  IF base.error # "none" THEN base ELSE
        Built([base.model EXCEPT
                 !.objective = deactivate(@),
                 !.squared_objective = Objective(CERZG1__squared_objective_rule(t))])

(* CQRZG2.__init__ : act is self.active, already normalised *)
CQRZG2__init__(c, f, r, t, cut, act) ==
    LET obj == Objective(CQRZG1__objective_rule(t))
        regF == CQRZG1__regression_rule(c, r)
    IN  IF regF.err # "none" THEN Fail(regF.err) ELSE
    LET reg == Constraint(regF.rule)
        logF == IF c = CET_MULT THEN CQRZG1__log_rule(c, r)
                ELSE Returned([i \in {} |-> Skip])
    IN  IF logF.err # "none" THEN Fail(logF.err) ELSE
    LET lg == Constraint(logF.rule)
        afrF == CQRZG1__afriat_rule(c, f, r)
    IN  IF afrF.err # "none" THEN Fail(afrF.err) ELSE
    LET afr == Constraint(afrF.rule)
    IN  IF afr.err # "none" THEN Fail(afr.err) ELSE
    LET swF == CQRZG1__sweet_rule(c, f, r, cut)
    IN  IF swF.err # "none" THEN Fail(swF.err) ELSE
    LET sw == Constraint(swF.rule)
    IN  IF sw.err # "none" THEN Fail(sw.err) ELSE
    LET sw2F == CQRZG2__sweet_rule2(c, f, r, act)
    IN  IF sw2F.err # "none" THEN Fail(sw2F.err) ELSE
    LET sw2 == Constraint(sw2F.rule)
    IN  IF sw2.err # "none" THEN Fail(sw2.err) ELSE
        Built([EmptyModel EXCEPT !.sets = CQRZG2__sets,
                                 !.variables = CQRZG2__variables,
                                 !.objective = obj,
                                 !.regression_rule = reg.members,
                                 !.log_rule = lg.members,
                                 !.afriat_rule = afr.members,
                                 !.sweet_rule = sw.members,
                                 !.sweet_rule2 = sw2.members])

(* CERZG2.__init__ *)
CERZG2__init__(c, f, r, t, cut, act) ==
    LET base == CQRZG2__init__(c, f, r, t, cut, act)
    IN  IF base.error # "none" THEN base ELSE
        Built([base.model EXCEPT
                 !.objective = deactivate(@),
                 !.squared_objective = Objective(CERZG2__squared_objective_rule(t))])

-----------------------------------------------------------------------------
(* the arguments a caller may pass *)
FlaggedSets == {S \in SUBSET Pairs : Cardinality(S) <= MaxFlagged}
FlaggedPairs ==
    {T \in FlaggedSets \X FlaggedSets :
        Cardinality(T[1]) + Cardinality(T[2]) <= MaxFlagged}
\* <<cutactive, raw active>> : all within the bound, or only all-false and
\* all-true matrices
Matrices == {<<T[1], T[2]>> : T \in FlaggedPairs}
FullOrEmpty == {{}, Pairs} \X {{}, Pairs}

\* the calls made: every matrix with supported parameters; with an
\* unsupported cet, fun or rts only the all-false and all-true matrices
Requested(c, f, r, T) ==
    \/ /\ c \in {CET_ADDI, CET_MULT}
       /\ f \in {FUN_PROD, FUN_COST}
       /\ r \in {RTS_VRS1, RTS_CRS}
    \/ T[1] \in {{}, Pairs} /\ T[2] \in {{}, Pairs}

NoRequest == [cls |-> "none", cet |-> "none", fun |-> "none", rts |-> "none"]
NoCall == [op |-> "none", solves |-> 0, result |-> "none",
           solved_before |-> FALSE, outcome |-> "none"]

Init ==
    /\ data \in DataValues
    /\ request = NoRequest
    /\ phase = "new"
    /\ error = "none"
    /\ cet = "none" /\ fun = "none" /\ rts = "none" /\ tau = 0
    /\ b = "none"
    /\ cutactive = NoMatrix
    /\ active = NoMatrix
    /\ model = EmptyModel
    /\ optimization_status = 0
    /\ problem_status = 0
    /\ solver_calls = 0
    /\ solved = FALSE
    /\ last_call = NoCall

\* what every constructor does with its arguments and its result: the fields
\* of self exist only if __init__ returned
Constructed(k, c, f, r, t, bb, cut, act, res) ==
    /\ request' = [cls |-> k, cet |-> c, fun |-> f, rts |-> r]
    /\ error' = res.error
    /\ phase' = IF res.error = "none" THEN "built" ELSE "failed"
    /\ IF res.error = "none"
       THEN /\ cet' = c /\ fun' = f /\ rts' = r /\ tau' = t
            /\ b' = bb
            /\ cutactive' = cut
            /\ active' = act
       ELSE /\ cet' = "none" /\ fun' = "none" /\ rts' = "none" /\ tau' = 0
            /\ b' = "none"
            /\ cutactive' = NoMatrix
            /\ active' = NoMatrix
    /\ model' = res.model
    /\ optimization_status' = 0
    /\ problem_status' = 0
    /\ UNCHANGED <<data, solver_calls, solved, last_call>>

(* CQRZG1(y, x, z, tau, cutactive, cet, fun, rts) *)
New_CQRZG1(flagged) ==
    /\ phase = "new"
    /\ \E c \in CetValues, f \in FunValues, r \in RtsValues,
          S \in {T[1] : T \in flagged} :
            /\ Requested(c, f, r, <<S, {}>>)
            /\ LET cut == Matrix(S, data.flag)
               IN  Constructed("CQRZG1", c, f, r, data.tau, "none", cut, NoMatrix,
                               CQRZG1__init__(c, f, r, data.tau, cut))

(* CERZG1(y, x, z, tau, cutactive, cet, fun, rts) *)
New_CERZG1(flagged) ==
    /\ phase = "new"
    /\ \E c \in CetValues, f \in FunValues, r \in RtsValues,
          S \in {T[1] : T \in flagged} :
            /\ Requested(c, f, r, <<S, {}>>)
            /\ LET cut == Matrix(S, data.flag)
               IN  Constructed("CERZG1", c, f, r, data.tau, "none", cut, NoMatrix,
                               CERZG1__init__(c, f, r, data.tau, cut))

(* CQRZG2(y, x, z, tau, cutactive, active, cet, fun, rts) *)
New_CQRZG2(flagged) ==
    /\ phase = "new"
    /\ \E c \in CetValues, f \in FunValues, r \in RtsValues,
          T \in flagged :
            /\ Requested(c, f, r, T)
            /\ LET cut == Matrix(T[1], data.flag)
                   act == to_2d_list(trans_list(Matrix(T[2], data.flag)))
               IN  Constructed("CQRZG2", c, f, r, data.tau, "none", cut, act,
                               CQRZG2__init__(c, f, r, data.tau, cut, act))

(* CERZG2(y, x, z, tau, cutactive, active, cet, fun, rts) *)
New_CERZG2(flagged) ==
    /\ phase = "new"
    /\ \E c \in CetValues, f \in FunValues, r \in RtsValues,
          T \in flagged :
            /\ Requested(c, f, r, T)
            /\ LET cut == Matrix(T[1], data.flag)
                   act == to_2d_list(trans_list(Matrix(T[2], data.flag)))
               IN  Constructed("CERZG2", c, f, r, data.tau, "none", cut, act,
                               CERZG2__init__(c, f, r, data.tau, cut, act))

(* construction alone, over every matrix within the bound *)
Next ==
    \/ New_CQRZG1(Matrices)
    \/ New_CERZG1(Matrices)
    \/ New_CQRZG2(Matrices)
    \/ New_CERZG2(Matrices)

Spec == Init /\ [][Next]_vars

-----------------------------------------------------------------------------
(* the solve / accessor lifecycle *)
SolverOutcomes == {"optimal", "infeasible", "unbounded", "unreachable"}

(* tools.optimize_model(model, email, cet, solver) with the solver ending in *)
(* `outcome`: it raises, or returns (problem_status, optimization_status)    *)
optimize_model(outcome) ==
    IF outcome = "optimal"
    THEN [raised |-> FALSE, value |-> <<1, 1>>]
    ELSE [raised |-> TRUE, value |-> <<0, 0>>]

\* optimize that assigns problem_status alone
optimize_one_field(ps, os, outcome) ==
    LET r == optimize_model(outcome)
    IN  IF r.raised
        THEN [problem_status |-> ps, optimization_status |-> os,
              solves |-> 1, result |-> "SolverError"]
        ELSE [problem_status |-> r.value[1], optimization_status |-> os,
              solves |-> 1, result |-> "returned"]

(* CQRZG1.optimize : both fields are assigned from the returned pair; an     *)
(* exception of optimize_model passes through before any assignment          *)
optimize(ps, os, outcome) ==
    LET r == optimize_model(outcome)
    IN  IF r.raised
        THEN [problem_status |-> ps, optimization_status |-> os,
              solves |-> 1, result |-> "SolverError"]
        ELSE [problem_status |-> r.value[1], optimization_status |-> r.value[2],
              solves |-> 1, result |-> "returned"]

\* get_alpha that records a solve without running one
get_alpha_marks_solved(ps, os, outcome) ==
    [problem_status |-> 1, optimization_status |-> 1,
     solves |-> 0, result |-> "returned"]

(* CQRZG1.get_alpha *)
get_alpha(ps, os, outcome) ==
    IF os = 0
    THEN optimize(ps, os, outcome)
    ELSE [problem_status |-> ps, optimization_status |-> os,
          solves |-> 0, result |-> "returned"]

\* get_beta that solves on every call
get_beta_resolves(ps, os, outcome) == optimize(ps, os, outcome)

(* CQRZG1.get_beta *)
get_beta(ps, os, outcome) ==
    IF os = 0
    THEN optimize(ps, os, outcome)
    ELSE [problem_status |-> ps, optimization_status |-> os,
          solves |-> 0, result |-> "returned"]

\* a method call that ended as `r`, the solver (if invoked) ending in `outcome`
Called(name, r, outcome) ==
    /\ phase = "built"
    /\ solver_calls + r.solves <= MaxSolverCalls
    /\ problem_status' = r.problem_status
    /\ optimization_status' = r.optimization_status
    /\ solver_calls' = solver_calls + r.solves
    /\ solved' = (solved \/ (r.solves > 0 /\ r.result = "returned"))
    /\ last_call' = [op |-> name, solves |-> r.solves, result |-> r.result,
                     solved_before |-> solved,
                     outcome |-> IF r.solves > 0 THEN outcome ELSE "none"]
    /\ UNCHANGED <<data, request, phase, error, cet, fun, rts, tau, b,
                   cutactive, active, model>>

Optimize ==
    \E o \in SolverOutcomes :
        Called("optimize", optimize(problem_status, optimization_status, o), o)

GetAlpha ==
    \E o \in SolverOutcomes :
        Called("get_alpha", get_alpha(problem_status, optimization_status, o), o)

GetBeta ==
    \E o \in SolverOutcomes :
        Called("get_beta", get_beta(problem_status, optimization_status, o), o)

NextSolve ==
    \/ New_CQRZG1(FullOrEmpty)
    \/ New_CERZG1(FullOrEmpty)
    \/ New_CQRZG2(FullOrEmpty)
    \/ New_CERZG2(FullOrEmpty)
    \/ Optimize
    \/ GetAlpha
    \/ GetBeta

SpecSolve == Init /\ [][NextSolve]_vars

-----------------------------------------------------------------------------
(* the rules CNLSG1 and CNLSDDFG2 take from CNLSZG1, CNLSDDFG1 and           *)
(* CNLSDDFZG2, from the description of the constraint generator             *)
Configured(f, r) ==
    f \in {FUN_PROD, FUN_COST} /\ r \in {RTS_VRS1, RTS_CRS}

\* the linear predictor with the coefficients of h at x[i]
Predictor(r, h, i) ==
    IF r = RTS_VRS1 THEN WithAlpha(h, h, i) ELSE NoAlpha(h, i)

\* <= for a production frontier, >= for a cost frontier
Orientation(f) == IF f = FUN_PROD THEN "le" ELSE "ge"

\* minimise sum(epsilon[i] ** 2)
LeastSquares == [epsilon |-> 1, power |-> 2]

ElementaryAfriat(ok, f, r) ==
    IF ok
    THEN Returned([i \in I |->
            Rel(Orientation(f), Predictor(r, i, i), Predictor(r, nextw(i), i))])
    ELSE Raised(ValueErrorUndefined, I)

\* a pairwise constraint for every flagged pair of distinct observations
SweetSpot(ok, f, r, m) ==
    IF ok
    THEN Returned([p \in Pairs |->
            IF Truthy(m[p]) /\ p[1] # p[2]
            THEN Rel(Orientation(f), Predictor(r, p[1], p[1]),
                     Predictor(r, p[2], p[1]))
            ELSE Skip])
    ELSE Raised(ValueErrorUndefined, Pairs)

CNLSZG1__objective_rule == LeastSquares

CNLSZG1__log_rule(c, r) ==
    IF c = CET_MULT /\ r \in {RTS_VRS1, RTS_CRS}
    THEN Returned([i \in I |-> LogRule(i, Predictor(r, i, i))])
    ELSE Raised(ValueErrorUndefined, I)

CNLSZG1__afriat_rule(c, f, r) ==
    ElementaryAfriat(c \in {CET_ADDI, CET_MULT} /\ Configured(f, r), f, r)

CNLSZG1__sweet_rule(c, f, r, cut) ==
    SweetSpot(c \in {CET_ADDI, CET_MULT} /\ Configured(f, r), f, r, cut)

\* y-side and right side of a regression equation with the single residual
Residual(yfn, i, logfrontier, side) ==
    [lhs |-> [fn |-> yfn, y |-> i],
     op |-> "eq",
     rhs |-> [log_frontier |-> logfrontier, side |-> side, epsilon |-> -1]]

(* CNLSG1.__regression_rule *)
CNLSG1__regression_rule(c, r) ==
    IF c = CET_ADDI /\ r = RTS_VRS1
    THEN Returned([i \in I |-> Residual("id", i, <<>>, WithAlpha(i, i, i))])
    ELSE IF c = CET_ADDI /\ r = RTS_CRS
    THEN Returned([i \in I |-> Residual("id", i, <<>>, NoAlpha(i, i))])
    ELSE IF c = CET_MULT
    THEN Returned([i \in I |-> Residual("log", i, <<i>>, NoSide)])
    ELSE Raised(ValueErrorUndefined, I)

(* CNLSG1.__init__ : the sets and the variables *)
CNLSG1__sets == {Set("I", "y"), Set("J", "x[0]")}
CNLSG1__variables ==
    {Var("alpha", <<"I">>, Free),
     Var("beta", <<"I", "J">>, NonNegative),
     Var("epsilon", <<"I">>, Free),
     Var("frontier", <<"I">>, NonNegative)}

(* CNLSG1.__init__ *)
CNLSG1__init__(c, f, r, cut) ==
    LET obj == Objective(CNLSZG1__objective_rule)
        regF == CNLSG1__regression_rule(c, r)
    IN  IF regF.err # "none" THEN Fail(regF.err) ELSE
    LET reg == Constraint(regF.rule)
        logF == IF c = CET_MULT THEN CNLSZG1__log_rule(c, r)
                ELSE Returned([i \in {} |-> Skip])
    IN  IF logF.err # "none" THEN Fail(logF.err) ELSE
    LET lg == Constraint(logF.rule)
        afrF == CNLSZG1__afriat_rule(c, f, r)
    IN  IF afrF.err # "none" THEN Fail(afrF.err) ELSE
    LET afr == Constraint(afrF.rule)
        swF == CNLSZG1__sweet_rule(c, f, r, cut)
    IN  IF swF.err # "none" THEN Fail(swF.err) ELSE
    LET sw == Constraint(swF.rule)
    IN  Built([EmptyModel EXCEPT !.sets = CNLSG1__sets,
                                 !.variables = CNLSG1__variables,
                                 !.objective = obj,
                                 !.regression_rule = reg.members,
                                 !.log_rule = lg.members,
                                 !.afriat_rule = afr.members,
                                 !.sweet_rule = sw.members])

CNLSDDFG1__objective_rule == LeastSquares

CNLSDDFG1__regression_rule(f, r) ==
    IF Configured(f, r)
    THEN Returned([i \in I |-> Residual("id", i, <<>>, Predictor(r, i, i))])
    ELSE Raised(ValueErrorUndefined, I)

\* sum(gamma[i,k]*gy[k]) + sum(delta[i,l]*gb[l]) + sum(beta[i,j]*gx[j]) == 1,
\* the delta sum only with undesirable outputs
CNLSDDFG1__translation_property(f, r, bb) ==
    IF Configured(f, r)
    THEN Returned([i \in I |->
            [lhs |-> [gamma |-> i, beta |-> i,
                      delta |-> IF bb = "None" THEN <<>> ELSE <<i>>],
             op |-> "eq",
             rhs |-> [constant |-> 1]]])
    ELSE Raised(ValueErrorUndefined, I)

CNLSDDFG1__afriat_rule(f, r) == ElementaryAfriat(Configured(f, r), f, r)

CNLSDDFG1__sweet_rule(f, r, cut) == SweetSpot(Configured(f, r), f, r, cut)

CNLSDDFZG2__sweet_rule2(f, r, act) == SweetSpot(Configured(f, r), f, r, act)

\* variables of CNLSDDFG2 with delta declared whatever b is
CNLSDDFG2__variables_delta_always(bb) ==
    {Var("alpha", <<"I">>, Free),
     Var("beta", <<"I", "J">>, NonNegative),
     Var("gamma", <<"I", "K">>, NonNegative),
     Var("delta", <<"I", "L">>, NonNegative),
     Var("epsilon", <<"I">>, Free),
     Var("frontier", <<"I">>, NonNegative)}

(* CNLSDDFG2.__init__ : the sets and the variables; L and delta only if      *)
(* type(self.b) != type(None)                                                *)
CNLSDDFG2__sets(bb) ==
    {Set("I", "y"), Set("J", "x[0]"), Set("K", "y[0]")}
      \cup (IF bb # "None" THEN {Set("L", "b[0]")} ELSE {})
CNLSDDFG2__variables(bb) ==
    {Var("alpha", <<"I">>, Free),
     Var("beta", <<"I", "J">>, NonNegative),
     Var("gamma", <<"I", "K">>, NonNegative),
     Var("epsilon", <<"I">>, Free),
     Var("frontier", <<"I">>, NonNegative)}
      \cup (IF bb # "None" THEN {Var("delta", <<"I", "L">>, NonNegative)} ELSE {})

(* CNLSDDFG2.__init__ : act is self.active, the argument as passed *)
CNLSDDFG2__init__(f, r, bb, cut, act) ==
    LET obj == Objective(CNLSDDFG1__objective_rule)
        regF == CNLSDDFG1__regression_rule(f, r)
    IN  IF regF.err # "none" THEN Fail(regF.err) ELSE
    LET reg == Constraint(regF.rule)
        trF == CNLSDDFG1__translation_property(f, r, bb)
    IN  IF trF.err # "none" THEN Fail(trF.err) ELSE
    LET tr == Constraint(trF.rule)
        afrF == CNLSDDFG1__afriat_rule(f, r)
    IN  IF afrF.err # "none" THEN Fail(afrF.err) ELSE
    LET afr == Constraint(afrF.rule)
        swF == CNLSDDFG1__sweet_rule(f, r, cut)
    IN  IF swF.err # "none" THEN Fail(swF.err) ELSE
    LET sw == Constraint(swF.rule)
        sw2F == CNLSDDFZG2__sweet_rule2(f, r, act)
    IN  IF sw2F.err # "none" THEN Fail(sw2F.err) ELSE
    LET sw2 == Constraint(sw2F.rule)
    IN  Built([EmptyModel EXCEPT !.sets = CNLSDDFG2__sets(bb),
                                 !.variables = CNLSDDFG2__variables(bb),
                                 !.objective = obj,
                                 !.regression_rule = reg.members,
                                 !.translation_rule = tr.members,
                                 !.afriat_rule = afr.members,
                                 !.sweet_rule = sw.members,
                                 !.sweet_rule2 = sw2.members])

\* b as passed: None, or a matrix of undesirable outputs
BValues == {"None", "supplied"}

(* CNLSG1(y, x, cutactive, cet, fun, rts) *)
New_CNLSG1(flagged) ==
    /\ phase = "new"
    /\ \E c \in CetValues, f \in FunValues, r \in RtsValues,
          S \in {T[1] : T \in flagged} :
            /\ Requested(c, f, r, <<S, {}>>)
            /\ LET cut == Matrix(S, data.flag)
               IN  Constructed("CNLSG1", c, f, r, 0, "none", cut, NoMatrix,
                               CNLSG1__init__(c, f, r, cut))

(* CNLSDDFG2(y, x, b, cutactive, active, gy, gx, gb, fun, rts) *)
New_CNLSDDFG2(flagged) ==
    /\ phase = "new"
    /\ \E f \in FunValues, r \in RtsValues, bb \in BValues, T \in flagged :
            LET cut == Matrix(T[1], data.flag)
                act == Matrix(T[2], data.flag)
            IN  Constructed("CNLSDDFG2", "none", f, r, 0, bb, cut, act,
                            CNLSDDFG2__init__(f, r, bb, cut, act))

(* construction of every class *)
NextVariants ==
    \/ New_CQRZG1(FullOrEmpty)
    \/ New_CERZG1(FullOrEmpty)
    \/ New_CQRZG2(FullOrEmpty)
    \/ New_CERZG2(FullOrEmpty)
    \/ New_CNLSG1(FullOrEmpty)
    \/ New_CNLSDDFG2(FullOrEmpty)

SpecVariants == Init /\ [][NextVariants]_vars

-----------------------------------------------------------------------------
(* what the claims speak of *)
RequestValid ==
    /\ request.cet \in {CET_ADDI, CET_MULT}
    /\ request.rts \in {RTS_VRS1, RTS_CRS}
    /\ request.fun \in {FUN_PROD, FUN_COST}

\* the pairs (i, h), i # h, whose cell is true
TrueOffDiagonal(m) == {p \in DOMAIN m : Truthy(m[p]) /\ p[1] # p[2]}
\* the indices a constraint component has members for
Indices(component) == {k.index : k \in component}

\* C1: in every valid configuration the model is built, and sweet_rule has a
\* member for (i, h) exactly when cutactive[i][h] is true and i # h, so it has
\* as many members as cutactive has true off-diagonal cells
C1_SweetRuleGatedByCutactive ==
    (phase # "new" /\ RequestValid) =>
        /\ phase = "built"
        /\ Indices(model.sweet_rule) = TrueOffDiagonal(cutactive)
        /\ Cardinality(model.sweet_rule) = Cardinality(TrueOffDiagonal(cutactive))

\* a built model whose cutactive flags a self-pair and one other pair
C1_Witness ==
    /\ phase = "built"
    /\ \E i \in I : Truthy(cutactive[<<i, i>>])
    /\ Cardinality(TrueOffDiagonal(cutactive)) = 1
    /\ Cardinality(model.sweet_rule) = 1

\* C2: a phase-2 model holds both layers at once: sweet_rule for the true
\* off-diagonal cells of cutactive and sweet_rule2 for those of active, so a
\* pair flagged in both has one constraint in each
C2_BothLayersPresent ==
    (phase = "built" /\ request.cls \in G2Classes) =>
        /\ Indices(model.sweet_rule) = TrueOffDiagonal(cutactive)
        /\ Indices(model.sweet_rule2) = TrueOffDiagonal(active)
        /\ Cardinality(model.sweet_rule) + Cardinality(model.sweet_rule2)
             = Cardinality(TrueOffDiagonal(cutactive))
               + Cardinality(TrueOffDiagonal(active))

\* a phase-2 model with a pair flagged in both matrices
C2_Witness ==
    /\ phase = "built"
    /\ request.cls \in G2Classes
    /\ \E p \in Pairs :
        /\ p \in TrueOffDiagonal(cutactive) \cap TrueOffDiagonal(active)
        /\ p \in Indices(model.sweet_rule) \cap Indices(model.sweet_rule2)

\* C3: the phase-2 constraints are the phase-1 rule of the same configuration
\* with active in the place of cutactive, and under CRS no sweet-spot
\* constraint of either phase has an alpha term
C3_Phase2SameForm ==
    (phase = "built" /\ request.cls \in G2Classes) =>
        /\ model.sweet_rule2
             = Constraint(CQRZG1__sweet_rule(cet, fun, rts, active).rule).members
        /\ rts = RTS_CRS =>
             \A k \in model.sweet_rule \cup model.sweet_rule2 :
                k.body.lhs.alpha = <<>> /\ k.body.rhs.alpha = <<>>

\* C4: every regression equation subtracts the contextual term, and its
\* predictor has alpha[i] under VRS and none under CRS
C4_ContextualTermSubtracted ==
    phase = "built" =>
        \A k \in model.regression_rule :
            /\ k.body.rhs.lamda = -1
            /\ (cet = CET_ADDI /\ rts = RTS_VRS1) =>
                  k.body.rhs.side = WithAlpha(k.index, k.index, k.index)
            /\ (cet = CET_ADDI /\ rts = RTS_CRS) =>
                  k.body.rhs.side = NoAlpha(k.index, k.index)

\* C5: a request with an unsupported cet, rts or fun fails with the
\* configuration error and produces no instance
C5_UnsupportedFailsUndefined ==
    (phase # "new" /\ ~RequestValid) =>
        /\ phase = "failed"
        /\ error = ValueErrorUndefined
        /\ model = EmptyModel

\* C6: an accessor called before any solve has returned invokes the solver
\* exactly once; once a solve has returned, an accessor never invokes it
C6_SolveOrReuse ==
    last_call.op \in {"get_alpha", "get_beta"} =>
        last_call.solves = IF last_call.solved_before THEN 0 ELSE 1

\* get_beta on a solved model, answered without the solver
C6_Witness ==
    /\ last_call.op = "get_beta"
    /\ last_call.solved_before
    /\ last_call.solves = 0
    /\ solver_calls = 1

ClassInit(k, c, f, r, t, cut, act) ==
    CASE k = "CQRZG1" -> CQRZG1__init__(c, f, r, t, cut)
      [] k = "CERZG1" -> CERZG1__init__(c, f, r, t, cut)
      [] k = "CQRZG2" -> CQRZG2__init__(c, f, r, t, cut, act)
      [] k = "CERZG2" -> CERZG2__init__(c, f, r, t, cut, act)

\* a component with <= replaced by >=
Flipped(component) ==
    {[k EXCEPT !.body.op = IF @ = "le" THEN "ge" ELSE @] : k \in component}

\* C8: a cost model is the production model of the same class, data, matrices,
\* cet and rts with every Afriat and sweet-spot constraint turned from <= to
\* >= (same sides, same pairs) and everything else the same
C8_CostFlipsProduction ==
    (phase = "built" /\ fun = FUN_COST) =>
        LET prod == ClassInit(request.cls, cet, FUN_PROD, rts, tau,
                              cutactive, active)
            all(component, op) == \A k \in component : k.body.op = op
        IN  /\ prod.error = "none"
            /\ all(prod.model.afriat_rule, "le") /\ all(model.afriat_rule, "ge")
            /\ all(prod.model.sweet_rule, "le") /\ all(model.sweet_rule, "ge")
            /\ all(prod.model.sweet_rule2, "le") /\ all(model.sweet_rule2, "ge")
            /\ model.afriat_rule = Flipped(prod.model.afriat_rule)
            /\ model.sweet_rule = Flipped(prod.model.sweet_rule)
            /\ model.sweet_rule2 = Flipped(prod.model.sweet_rule2)
            /\ model.regression_rule = prod.model.regression_rule
            /\ model.log_rule = prod.model.log_rule
            /\ model.objective = prod.model.objective
            /\ model.squared_objective = prod.model.squared_objective

\* a phase-2 cost model with sweet-spot constraints in both layers
C8_Witness ==
    /\ phase = "built"
    /\ fun = FUN_COST
    /\ request.cls \in G2Classes
    /\ model.sweet_rule # {}
    /\ model.sweet_rule2 # {}

\* C9: no sweet-spot constraint of either phase is indexed by a self-pair
C9_NoSelfPair ==
    \A k \in model.sweet_rule \cup model.sweet_rule2 : k.index[1] # k.index[2]

\* a phase-2 model whose cutactive holds the number 2 on the diagonal and
\* whose active flags a self-pair
C9_Witness ==
    /\ phase = "built"
    /\ request.cls \in G2Classes
    /\ \E i \in I : cutactive[<<i, i>>] = 2
    /\ \E i \in I : Truthy(active[<<i, i>>])

\* the objectives the solver would minimise
ActiveObjectives(m) == {o \in m.objective \cup m.squared_objective : o.active}
QuantileClass(k) ==
    CASE k \in {"CQRZG1", "CERZG1"} -> "CQRZG1"
      [] k \in {"CQRZG2", "CERZG2"} -> "CQRZG2"

\* C10: the quantile objective weighs the epsilon_plus sum by 1 - tau and the
\* epsilon_minus sum by tau (0.5 and 0.5 for tau = 0.5); the active objective
\* of the expectile model of the same inputs is that objective with every
\* residual squared and the weights kept
C10_ExpectileSquaresQuantile ==
    phase = "built" =>
        LET quantile == ClassInit(QuantileClass(request.cls), cet, fun, rts,
                                  tau, cutactive, active).model
        IN  /\ \A o \in ActiveObjectives(quantile) :
                /\ o.expr.power = 1
                /\ o.expr.epsilon_plus = 10 - tau
                /\ o.expr.epsilon_minus = tau
                /\ tau = 5 => (o.expr.epsilon_plus = 5 /\ o.expr.epsilon_minus = 5)
            /\ Cardinality(ActiveObjectives(quantile)) = 1
            /\ request.cls \in {"CQRZG1", "CQRZG2"} =>
                 ActiveObjectives(model) = ActiveObjectives(quantile)
            /\ request.cls \in {"CERZG1", "CERZG2"} =>
                 ActiveObjectives(model) =
                    {[o EXCEPT !.expr.power = 2] : o \in ActiveObjectives(quantile)}

\* an expectile model with tau = 0.3
C10_Witness ==
    /\ phase = "built"
    /\ request.cls = "CERZG1"
    /\ tau = 3
    /\ model.squared_objective # {}

\* C11: with cet = CET_MULT the log-linearisation component has one member
\* per observation, frontier[i] == alpha[i] + sum_j beta[i,j]*x[i][j] - 1
\* under VRS and frontier[i] == sum_j beta[i,j]*x[i][j] - 1 under CRS, and
\* every regression member equates log(y[i]) with log(frontier[i] + 1) and
\* carries no alpha or beta term; with cet = CET_ADDI the component is empty
C11_LogRuleOnlyMultiplicative ==
    phase = "built" =>
        /\ cet = CET_ADDI => model.log_rule = {}
        /\ cet = CET_MULT =>
            /\ Indices(model.log_rule) = I
            /\ Cardinality(model.log_rule) = NumObs
            /\ \A k \in model.log_rule :
                /\ k.body.op = "eq"
                /\ k.body.lhs = [frontier |-> k.index]
                /\ k.body.rhs.plus = -1
                /\ k.body.rhs.side.beta = k.index
                /\ k.body.rhs.side.x = k.index
                /\ k.body.rhs.side.alpha =
                      IF rts = RTS_VRS1 THEN <<k.index>> ELSE <<>>
            /\ \A k \in model.regression_rule :
                /\ k.body.op = "eq"
                /\ k.body.lhs = [fn |-> "log", y |-> k.index]
                /\ k.body.rhs.log_frontier = <<k.index>>
                /\ k.body.rhs.side = NoSide

\* a multiplicative model under variable returns to scale
C11_Witness ==
    /\ phase = "built"
    /\ cet = CET_MULT
    /\ rts = RTS_VRS1
    /\ Cardinality(model.log_rule) = NumObs
    /\ Cardinality(model.regression_rule) = NumObs

\* C12: on a built instance every step is a method call that leaves the data,
\* the configuration, cutactive, active and every component of the model as
\* they are, and changes the two status fields only by a solver run of that
\* call; so the fields and the model stay what the constructor made of its
\* arguments, and both status fields are 0 until a solve has returned
C12_OnlyStatusesChange ==
    /\ [](phase = "built" =>
            /\ cet = request.cet /\ fun = request.fun /\ rts = request.rts
            /\ tau = data.tau
            /\ model = ClassInit(request.cls, cet, fun, rts, tau,
                                 cutactive, active).model
            /\ ~solved => (problem_status = 0 /\ optimization_status = 0))
    /\ [][phase = "built" =>
            /\ UNCHANGED <<data, request, phase, error, cet, fun, rts, tau, b,
                           cutactive, active, model>>
            /\ <<problem_status, optimization_status>>' #
                   <<problem_status, optimization_status>>
                 => solver_calls' = solver_calls + 1]_vars

\* an accessor after a failed and a successful solve, on a model with both
\* sweet-spot layers
C12_Witness ==
    /\ phase = "built"
    /\ solver_calls = MaxSolverCalls
    /\ solved
    /\ last_call.op = "get_alpha"
    /\ last_call.solves = 0
    /\ optimization_status # 0
    /\ model.sweet_rule # {}
    /\ model.sweet_rule2 # {}

\* C13: whatever cutactive and active hold, a built model has one elementary
\* Afriat constraint per observation i: on the left the coefficients of i at
\* x[i], on the right the coefficients of the next observation, the first one
\* after the last, at the same x[i]; a phase-1 model with an all-false
\* cutactive has NumObs regression constraints, NumObs elementary Afriat
\* constraints and no sweet-spot constraint
C13_AfriatPerObservation ==
    phase = "built" =>
        /\ Indices(model.afriat_rule) = I
        /\ Cardinality(model.afriat_rule) = NumObs
        /\ \A k \in model.afriat_rule :
              LET i == k.index
                  n == IF i = NumObs - 1 THEN 0 ELSE i + 1
              IN  /\ k.body.lhs.beta = i /\ k.body.lhs.x = i
                  /\ k.body.rhs.beta = n /\ k.body.rhs.x = i
                  /\ k.body.lhs.alpha = IF rts = RTS_VRS1 THEN <<i>> ELSE <<>>
                  /\ k.body.rhs.alpha = IF rts = RTS_VRS1 THEN <<n>> ELSE <<>>
        /\ (request.cls \in G1Classes /\ \A p \in Pairs : ~Truthy(cutactive[p]))
             => /\ Cardinality(model.regression_rule) = NumObs
                /\ model.sweet_rule = {}
                /\ model.sweet_rule2 = {}

\* a phase-1 model with an all-false cutactive: the constraint of the last
\* observation compares with the first
C13_Witness ==
    /\ phase = "built"
    /\ request.cls = "CQRZG1"
    /\ \A p \in Pairs : cutactive[p] = 0
    /\ \E k \in model.afriat_rule :
          k.index = NumObs - 1 /\ k.body.rhs.beta = 0 /\ k.body.rhs.x = NumObs - 1
    /\ model.sweet_rule = {}

\* C14: an expectile model has the sets, the variables and the regression,
\* log-linearisation, Afriat and sweet-spot constraints (both layers in
\* CERZG2) of the quantile model of the same arguments; its `objective` is
\* the quantile objective, deactivated, and its squared objective is the one
\* active objective
C14_ExpectileDiffersInObjectiveOnly ==
    (phase = "built" /\ request.cls \in {"CERZG1", "CERZG2"}) =>
        LET quantile == ClassInit(QuantileClass(request.cls), cet, fun, rts,
                                  tau, cutactive, active)
        IN  /\ quantile.error = "none"
            /\ model.sets = quantile.model.sets
            /\ model.variables = quantile.model.variables
            /\ model.regression_rule = quantile.model.regression_rule
            /\ model.log_rule = quantile.model.log_rule
            /\ model.afriat_rule = quantile.model.afriat_rule
            /\ model.sweet_rule = quantile.model.sweet_rule
            /\ model.sweet_rule2 = quantile.model.sweet_rule2
            /\ {o.expr : o \in model.objective} =
                   {o.expr : o \in quantile.model.objective}
            /\ \A o \in quantile.model.objective : o.active
            /\ \A o \in model.objective : ~o.active
            /\ quantile.model.squared_objective = {}
            /\ Cardinality(model.squared_objective) = 1
            /\ ActiveObjectives(model) = model.squared_objective

\* a phase-2 expectile model with both sweet-spot layers
C14_Witness ==
    /\ phase = "built"
    /\ request.cls = "CERZG2"
    /\ model.sweet_rule # {}
    /\ model.sweet_rule2 # {}
    /\ model.variables # {}
    /\ \E o \in model.objective : ~o.active

\* C15: in every phase-2 model, of the contextual quantile / expectile
\* classes and of the DDF class alike, self.active is the normalised matrix:
\* one cell per pair of observations, each a boolean (True = 1, False = 0)
C15_ActiveNormalised ==
    (phase = "built" /\ request.cls \in {"CQRZG2", "CERZG2", "CNLSDDFG2"}) =>
        /\ DOMAIN active = Pairs
        /\ \A p \in Pairs : active[p] \in {0, 1}

\* C16: in a built model of any class, beta, gamma, delta, epsilon_plus,
\* epsilon_minus and frontier have lower bound 0 and no upper bound; alpha,
\* epsilon and lamda have no bound; lamda is indexed by K alone, the columns
\* of z; alpha, epsilon, epsilon_plus, epsilon_minus and frontier are indexed
\* by I, the observations
C16_VariableBoundsAndIndices ==
    phase = "built" =>
        /\ Set("I", "y") \in model.sets
        /\ \A v \in model.variables :
            /\ v.name \in {"alpha", "beta", "gamma", "delta", "lamda", "epsilon",
                            "epsilon_plus", "epsilon_minus", "frontier"}
            /\ v.name \in {"beta", "gamma", "delta", "epsilon_plus",
                            "epsilon_minus", "frontier"}
                 => (v.bounds.lower = <<0>> /\ v.bounds.upper = <<>>)
            /\ v.name \in {"alpha", "epsilon", "lamda"}
                 => (v.bounds.lower = <<>> /\ v.bounds.upper = <<>>)
            /\ v.name = "lamda"
                 => (v.index = <<"K">> /\ Set("K", "z[0]") \in model.sets)
            /\ v.name \in {"alpha", "epsilon", "epsilon_plus", "epsilon_minus",
                            "frontier"}
                 => v.index = <<"I">>
        /\ \A v, w \in model.variables : v.name = w.name => v = w
        /\ {"alpha", "beta", "frontier"} \subseteq {v.name : v \in model.variables}

\* a contextual quantile model, with lamda and both residuals declared
C16_Witness ==
    /\ phase = "built"
    /\ request.cls = "CQRZG1"
    /\ {"lamda", "epsilon_plus", "epsilon_minus"}
          \subseteq {v.name : v \in model.variables}

\* the names of the variables declared in the model
Declared == {v.name : v \in model.variables}

\* C17 as stated: the DDF model declares gamma (I x K) and delta (I x L)
\* when b is supplied, and neither gamma nor delta when b is None
C17_GammaAndDeltaExactlyWithB ==
    (phase = "built" /\ request.cls = "CNLSDDFG2") =>
        /\ b = "supplied" =>
              /\ Var("gamma", <<"I", "K">>, NonNegative) \in model.variables
              /\ Var("delta", <<"I", "L">>, NonNegative) \in model.variables
        /\ b = "None" => ("gamma" \notin Declared /\ "delta" \notin Declared)

\* C17, amended: the DDF model declares gamma (I x K, K the columns of y)
\* whether or not b is supplied; it declares delta (I x L) and the set L, the
\* columns of b, exactly when b is supplied
C17_DeltaExactlyWithB ==
    (phase = "built" /\ request.cls = "CNLSDDFG2") =>
        /\ Var("gamma", <<"I", "K">>, NonNegative) \in model.variables
        /\ Set("K", "y[0]") \in model.sets
        /\ b = "supplied" =>
              /\ Var("delta", <<"I", "L">>, NonNegative) \in model.variables
              /\ Set("L", "b[0]") \in model.sets
        /\ b = "None" =>
              /\ "delta" \notin Declared
              /\ "L" \notin {t.name : t \in model.sets}
        /\ b \in BValues

\* a DDF model without undesirable outputs: gamma is declared, delta is not
C17_Witness ==
    /\ phase = "built"
    /\ request.cls = "CNLSDDFG2"
    /\ b = "None"
    /\ "gamma" \in Declared
    /\ "delta" \notin Declared

====
